---- MODULE Spec2Model ----
(***************************************************************************)
(* Model of the HTTP dispatchers of kuangyh/aerpcproxy:                    *)
(*   - swiffy.go : serviceHandler (routing on the `method` parameter) and  *)
(*                 methodHandler (read, decode, backend, respond);         *)
(*   - aerpcproxy.go and the rpcproxy variant : proxyHandler.              *)
(* In Spec one request at a time travels through the handler; the steps of *)
(* a handler are the actions.  The http.ResponseWriter is the record w.    *)
(* SpecSetup builds the method table, SpecRegistration derives the path of *)
(* a method, SpecConcurrent interleaves the calls of several requests.     *)
(***************************************************************************)
EXTENDS Integers, Sequences, FiniteSets, TLC

\* Number of requests the server serves in one run.
MaxServed == 2

----------------------------------------------------------------------------
(* Values *)

\* Wire payloads (byte strings), named by what they hold.
JsonWorld  == "json{name:World}"
JsonNoName == "json{name:}"
ProtoWorld == "proto{name:World}"
Garbage    == "garbage"
ReadError  == "<read error>"

\* What the request's byte stream yields when read: bytes, or a read error.
Streams == {"", JsonWorld, JsonNoName, ProtoWorld, Garbage, ReadError}

\* A form parameter is the sequence of its values: <<>> when absent.
FormatParams  == {<<>>, <<"json">>, <<"proto">>, <<"text">>, <<"xml">>}
InlineParams  == {<<>>, <<"">>, <<JsonWorld>>}
MethodParams  == {<<>>, <<"">>, <<"Hello">>, <<"Op">>, <<"Raw">>, <<"Nope">>}

\* An http.Request as the handlers see it: the values of the form parameters
\* (of the URL query and, for a form body, of the body), what reading r.Body
\* yields, and whether the request is a POST, PUT or PATCH with Content-Type
\* application/x-www-form-urlencoded, whose body the form parser reads.
Request(mp, fp, ip, st, ue) ==
    [method |-> mp, format |-> fp, inline |-> ip, stream |-> st, urlencoded |-> ue]

NoRequest == Request(<<>>, <<>>, <<>>, "", FALSE)

\* The public methods of the service value handed to NewServiceHandler,
\* with whether the request type implements proto.Message.
ServiceMethods == {"Hello", "Op", "Raw"}
ProxiedMethods == {"Hello", "Op"}
ReqIsProto(m) == m # "Raw"

\* Kinds of Middleware the caller may configure in Options.
Middlewares == {"nil", "protoLogger", "canned", "deny", "postError"}

\* interface{} values handed to the encoder.
\*   "nil"      untyped nil            "nilptr"  typed nil pointer to a message
\*   "notproto" a value that is not a proto.Message
\*   "badmsg"   a message whose marshalling fails
\*   anything else: a message that marshals
IsProto(v) == v \notin {"nil", "notproto"}

\* error values
NoErr == [kind |-> "nil", status |-> 0, text |-> "", message |-> "nil"]
PlainErr(text) == [kind |-> "plain", status |-> 0, text |-> text, message |-> "nil"]

\* swiffy.Error / aerpcproxy.Error
Error(status, text, message) ==
    [kind |-> "errorWith", status |-> status, text |-> text, message |-> message]

StatusText(code) ==
    CASE code = 400 -> "Bad Request"
      [] code = 403 -> "Forbidden"
      [] code = 404 -> "Not Found"
      [] code = 409 -> "Conflict"
      [] code = 500 -> "Internal Server Error"
      [] OTHER      -> ""

\* errorWith.Error()
ErrorString(e) ==
    IF e.kind = "errorWith" /\ e.text = "" THEN StatusText(e.status) ELSE e.text

\* err.(WithHTTPStatus)
IsWithHTTPStatus(e) == e.kind = "errorWith"
\* err.(WithMessage)
IsWithMessage(e) == e.kind = "errorWith"

----------------------------------------------------------------------------
(* http.ResponseWriter *)

NoSniff == <<"X-Content-Type-Options", "nosniff">>

\* status 0: the header has not been written yet.
NewWriter == [status |-> 0, headerCalls |-> 0, header |-> {}, sent |-> {}, body |-> <<>>]

HeaderSet(w, h) == [w EXCEPT !.header = {x \in w.header : x[1] # h[1]} \cup {h}]
HeaderAdd(w, h) == [w EXCEPT !.header = w.header \cup {h}]

\* The first WriteHeader fixes the status and the headers sent; later ones
\* are ignored by net/http.
WriteHeader(w, code) ==
    IF w.status = 0
    THEN [w EXCEPT !.status = code, !.headerCalls = w.headerCalls + 1, !.sent = w.header]
    ELSE [w EXCEPT !.headerCalls = w.headerCalls + 1]

\* Write sends an implicit WriteHeader(200) when none was sent.
Write(w, chunk) ==
    LET w1 == IF w.status = 0
              THEN [w EXCEPT !.status = 200, !.sent = w.header]
              ELSE w
    IN [w1 EXCEPT !.body = Append(w1.body, chunk)]

Chunk(kind, a, b) == [kind |-> kind, a |-> a, b |-> b]

\* http.Error
HttpError(w, text, code) ==
    LET w1 == HeaderSet(w, <<"Content-Type", "text/plain; charset=utf-8">>)
        w2 == HeaderSet(w1, NoSniff)
    IN Write(WriteHeader(w2, code), Chunk("text", text, ""))

----------------------------------------------------------------------------
(* Codec *)

ZeroRequest == [name |-> ""]

\* jsonpb.Unmarshal / proto.Unmarshal / proto.UnmarshalText on the payloads.
Unmarshal(format, src) ==
    CASE format = "json" /\ src = JsonWorld   -> [err |-> "", dst |-> [name |-> "World"]]
      [] format = "json" /\ src = JsonNoName  -> [err |-> "", dst |-> [name |-> ""]]
      [] format = "proto" /\ src = ProtoWorld -> [err |-> "", dst |-> [name |-> "World"]]
      [] OTHER -> [err |-> "malformed " \o format, dst |-> ZeroRequest]

\* Mutant: the decoder lets an unknown format through instead of failing.
ProtoDecoder_UnknownFormatAccepted(dstIsProto, src, format) ==
    IF src = "" THEN [err |-> "", dst |-> ZeroRequest]
    ELSE IF ~dstIsProto THEN [err |-> "Decode destination is not proto", dst |-> ZeroRequest]
    ELSE IF format \in {"json", "proto", "text"} THEN Unmarshal(format, src)
    ELSE [err |-> "", dst |-> ZeroRequest]

\* Mutant: the decoder has no shortcut for empty input and unmarshals it.
ProtoDecoder_NoEmptyShortcut(dstIsProto, src, format) ==
    IF ~dstIsProto THEN [err |-> "Decode destination is not proto", dst |-> ZeroRequest]
    ELSE IF format \in {"json", "proto", "text"} THEN Unmarshal(format, src)
    ELSE [err |-> "Unknown format " \o format, dst |-> ZeroRequest]

ProtoDecoder(dstIsProto, src, format) ==
    IF src = "" THEN [err |-> "", dst |-> ZeroRequest]
    ELSE IF ~dstIsProto THEN [err |-> "Decode destination is not proto", dst |-> ZeroRequest]
    ELSE IF format \in {"json", "proto", "text"} THEN Unmarshal(format, src)
    ELSE [err |-> "Unknown format " \o format, dst |-> ZeroRequest]

ContentType(format) ==
    CASE format = "json"  -> "text/json; charset=utf-8"
      [] format = "proto" -> "application/x-protobuf"
      [] format = "text"  -> "text/plain; charset=utf-8"
      [] OTHER            -> ""

\* Whether marshalling v in the format returns an error.
MarshalFails(v, format) ==
    \/ v = "badmsg"
    \/ v = "nilptr" /\ format \in {"json", "proto"}

\* The marshal call of ProtoEncoder: on failure the streaming marshalers
\* (json, text) may already have written part of the output.
Marshal(w, v, format, partial) ==
    IF MarshalFails(v, format)
    THEN [w   |-> IF partial /\ format # "proto" /\ v # "nilptr"
                  THEN Write(w, Chunk("partial", format, v)) ELSE w,
          err |-> "marshal error"]
    ELSE [w |-> Write(w, Chunk("encoded", format, v)), err |-> ""]

ProtoEncoder(w, status, src, format, partial) ==
    IF ~IsProto(src) THEN [w |-> w, err |-> "Encode source is not proto"]
    ELSE IF format \in {"json", "proto", "text"}
    THEN Marshal(WriteHeader(HeaderAdd(w, <<"Content-Type", ContentType(format)>>), status),
                 src, format, partial)
    ELSE [w |-> w, err |-> "Unknown format " \o format]

----------------------------------------------------------------------------
(* Backend operations and Middleware *)

\* hello.Service.Hello / helloServ.Hello: <<response, error>>.
Hello(req) ==
    IF req.name = "" THEN <<"nilptr", PlainErr("No name")>>
    ELSE <<"Hello " \o req.name, NoErr>>

\* What a service method of the required shape may return.
OpOutcomes ==
    { <<"ok", NoErr>>, <<"badmsg", NoErr>>, <<"nilptr", NoErr>>,
      <<"nilptr", PlainErr("boom")>>,
      <<"nilptr", Error(403, "", "nil")>>,
      <<"nilptr", Error(404, "gone", "detail")>>,
      <<"nilptr", Error(409, "", "badmsg")>>,
      <<"nilptr", Error(403, "denied", "notproto")>> }

\* The results the backend function registered as m can return for req.
Outcomes(m, req) ==
    CASE m = "Hello" -> {Hello(req)}
      [] m = "Op"    -> OpOutcomes
      [] OTHER       -> {<<"notproto", NoErr>>}

\* h.backend(ctx, req): the backend function wrapped by opt.Middleware.
\* out is what the wrapped function returns if it is called; called tells
\* whether the Middleware called it.
protoLogger(out) == [res |-> out[1], err |-> out[2], called |-> TRUE]

Backend(mw, out) ==
    CASE mw = "nil"         -> [res |-> out[1], err |-> out[2], called |-> TRUE]
      [] mw = "protoLogger" -> protoLogger(out)
      [] mw = "canned"      -> [res |-> "canned", err |-> NoErr, called |-> FALSE]
      [] mw = "deny"        -> [res |-> "nil", err |-> Error(403, "", "nil"), called |-> FALSE]
      [] OTHER              -> [res |-> "nil", err |-> Error(409, "rejected", "nil"), called |-> TRUE]

----------------------------------------------------------------------------
(* State *)

VARIABLES
    middleware,    \* Options.Middleware
    methods,       \* serviceHandler.methods: the names in the method table
    served,        \* requests accepted so far
    pc,            \* position of the current request in its handler
    handler,       \* "swiffy" (serviceHandler) or "proxy" (proxyHandler)
    r,             \* the http.Request: form parameters and body stream
    target,        \* the method whose handler serves the request
    format,        \* local format of the handler
    rb,            \* local rb: raw request bytes
    req,           \* the request value handed to the backend
    res,           \* the backend's response
    err,           \* the backend's error
    calls,         \* per service method: invocations for this request
    handlerCalls,  \* invocations of h.backend for this request
    decoderCalls,  \* invocations of the decoder for this request
    encoderCalls,  \* invocations of the encoder for this request
    streamReads,   \* reads of r.Body for this request
    w,             \* the http.ResponseWriter
    serv,          \* setup: the service value, method name -> signature
    built,         \* setup: what NewServiceHandler / RegisterService gave
    name,          \* registration: a method name, a sequence of characters
    path,          \* registration: the path derived from the name
    clients        \* concurrent requests: client -> the locals of its handler

vars == <<middleware, methods, served, pc, handler, r, target, format, rb, req,
          res, err, calls, handlerCalls, decoderCalls, encoderCalls, streamReads, w,
          serv, built, name, path, clients>>

\* The variables of setup, of path registration and of concurrent serving.
setup == <<serv, built>>
registration == <<name, path>>
aux == <<setup, registration, clients>>

config == <<middleware, methods>>
request == <<handler, r, served>>

FormValue(p) == IF p = <<>> THEN "" ELSE p[1]

\* r.ParseForm, which the first r.FormValue of a request calls: the number
\* of times it reads r.Body, and what a later read of r.Body can yield.  The
\* body of a urlencoded request is read to its end, so a later read yields
\* nothing.  A read error is not reported by FormValue and is not tested by
\* the proxy handler; after it the stream either fails again (a broken
\* connection) or is at its end (a body cut short, which net/http reports
\* once).
ParseFormReads(rq) == IF rq.urlencoded THEN 1 ELSE 0
BodyAfterParseForm(rq) ==
    IF ~rq.urlencoded THEN {rq.stream}
    ELSE IF rq.stream = ReadError THEN {ReadError, ""}
    ELSE {""}

NoCalls == [m \in ServiceMethods |-> 0]

\* NewServiceHandler: every public method of the service enters the table.
NewServiceHandler == ServiceMethods

MainInit ==
    /\ middleware \in Middlewares
    /\ methods = NewServiceHandler
    /\ served = 0
    /\ pc = "idle"
    /\ handler = "swiffy"
    /\ r = NoRequest
    /\ target = ""
    /\ format = ""
    /\ rb = ""
    /\ req = ZeroRequest
    /\ res = "nil"
    /\ err = NoErr
    /\ calls = NoCalls
    /\ handlerCalls = 0
    /\ decoderCalls = 0
    /\ encoderCalls = 0
    /\ streamReads = 0
    /\ w = NewWriter

\* No setup under study, no path being registered, no concurrent client.
SetupIdle ==
    serv = <<>> /\ built = [state |-> "none", table |-> {}, mux |-> {}, i |-> 0, mw |-> "nil"]
RegistrationIdle == name = <<>> /\ path = <<>>
ClientsIdle == clients = <<>>

Init == MainInit /\ SetupIdle /\ RegistrationIdle /\ ClientsIdle

\* A request reaches the server: net/http hands it, with a fresh
\* ResponseWriter, to the service handler or to the proxy handler the mux
\* bound to the path of one method.
Arrive ==
    /\ pc = "idle"
    /\ served < MaxServed
    /\ served' = served + 1
    /\ \E h \in {"swiffy", "proxy"}, mp \in MethodParams, fp \in FormatParams,
          ip \in InlineParams, st \in Streams, ue \in BOOLEAN :
          /\ h = "proxy" => FormValue(mp) \in ProxiedMethods
          /\ handler' = h
          /\ r' = Request(mp, fp, ip, st, ue)
          /\ target' = IF h = "proxy" THEN FormValue(mp) ELSE ""
          /\ pc' = IF h = "proxy" THEN "proxyRead" ELSE "route"
    /\ UNCHANGED <<aux, config, format, rb, req, res, err, calls, handlerCalls,
                   decoderCalls, encoderCalls, streamReads, w>>

\* ServeHTTP has returned and the response is sent: the per-request values
\* (the handler's locals, the request, the writer) are gone.
Finish ==
    /\ pc = "done"
    /\ pc' = "idle"
    /\ handler' = "swiffy"
    /\ r' = NoRequest
    /\ target' = ""
    /\ format' = ""
    /\ rb' = ""
    /\ req' = ZeroRequest
    /\ res' = "nil"
    /\ err' = NoErr
    /\ calls' = NoCalls
    /\ handlerCalls' = 0
    /\ decoderCalls' = 0
    /\ encoderCalls' = 0
    /\ streamReads' = 0
    /\ w' = NewWriter
    /\ UNCHANGED <<aux, config, served>>

----------------------------------------------------------------------------
(* swiffy: serviceHandler and methodHandler *)

\* Mutant: the test for an empty method parameter is missing.
ServiceHandlerRoute_NoEmptyTest(method, table) ==
    IF method \notin table THEN [w |-> HttpError(NewWriter, "Method not found", 404), mh |-> ""]
    ELSE [w |-> NewWriter, mh |-> method]

\* Mutant: a name that is not in the table is served by a default handler.
ServiceHandlerRoute_DefaultHandler(method, table) ==
    IF method = "" THEN [w |-> HttpError(NewWriter, "No method parameter", 400), mh |-> ""]
    ELSE IF method \notin table THEN [w |-> NewWriter, mh |-> "Hello"]
    ELSE [w |-> NewWriter, mh |-> method]

\* Mutant: every name of the table is bound to the handler of one method
\* (the loop variable captured by all the handlers).
ServiceHandlerRoute_LastMethod(method, table) ==
    IF method = "" THEN [w |-> HttpError(NewWriter, "No method parameter", 400), mh |-> ""]
    ELSE IF method \notin table THEN [w |-> HttpError(NewWriter, "Method not found", 404), mh |-> ""]
    ELSE [w |-> NewWriter, mh |-> "Op"]

\* serviceHandler.ServeHTTP up to the call of the method handler.
ServiceHandlerRoute(method, table) ==
    IF method = "" THEN [w |-> HttpError(NewWriter, "No method parameter", 400), mh |-> ""]
    ELSE IF method \notin table THEN [w |-> HttpError(NewWriter, "Method not found", 404), mh |-> ""]
    ELSE [w |-> NewWriter, mh |-> method]

ServiceHandlerServeHTTP ==
    /\ pc = "route"
    /\ LET d == ServiceHandlerRoute(FormValue(r.method), methods)
       IN /\ w' = d.w
          /\ target' = d.mh
          /\ pc' = IF d.mh = "" THEN "done" ELSE "read"
    /\ streamReads' = streamReads + ParseFormReads(r)
    /\ UNCHANGED <<aux, config, request, format, rb, req, res, err, calls,
                   handlerCalls, decoderCalls, encoderCalls>>

\* Mutant: the method handler defaults to the format of the proxy handlers.
MethodHandlerFormat_DefaultProto(fp) == IF FormValue(fp) = "" THEN "proto" ELSE FormValue(fp)

\* methodHandler.ServeHTTP, format and raw bytes.
MethodHandlerFormat(fp) == IF FormValue(fp) = "" THEN "json" ELSE FormValue(fp)

\* methodHandler.ServeHTTP, the raw bytes: the form is parsed by now, and
\* ioutil.ReadAll gets what the form parser left of the body.
MethodHandlerRead ==
    /\ pc = "read"
    /\ format' = MethodHandlerFormat(r.format)
    /\ IF FormValue(r.inline) # ""
       THEN /\ rb' = FormValue(r.inline)
            /\ pc' = "decode"
            /\ UNCHANGED <<streamReads, w>>
       ELSE /\ streamReads' = streamReads + 1
            /\ \E body \in BodyAfterParseForm(r) :
                  IF body = ReadError
                  THEN /\ w' = HttpError(w, "Read request from HTTP body failed", 400)
                       /\ pc' = "done"
                       /\ rb' = ""
                  ELSE /\ rb' = body
                       /\ pc' = "decode"
                       /\ w' = w
    /\ UNCHANGED <<aux, config, request, target, req, res, err, calls,
                   handlerCalls, decoderCalls, encoderCalls>>

\* methodHandler.ServeHTTP, allocation of the request and decoding.
MethodHandlerDecodeStatus == 400

MethodHandlerDecode ==
    /\ pc = "decode"
    /\ decoderCalls' = decoderCalls + 1
    /\ LET d == ProtoDecoder(ReqIsProto(target), rb, format)
       IN IF d.err # ""
          THEN /\ w' = HttpError(w, "Decode request failed, " \o d.err, MethodHandlerDecodeStatus)
               /\ pc' = "done"
               /\ req' = ZeroRequest
          ELSE /\ req' = d.dst
               /\ pc' = "invoke"
               /\ w' = w
    /\ UNCHANGED <<aux, config, request, target, format, rb, res, err, calls,
                   handlerCalls, encoderCalls, streamReads>>

\* methodHandler.ServeHTTP, res, err := h.backend(ctx, req).
MethodHandlerInvoke ==
    /\ pc = "invoke"
    /\ handlerCalls' = handlerCalls + 1
    /\ \E out \in Outcomes(target, req) :
          LET b == Backend(middleware, out)
          IN /\ res' = b.res
             /\ err' = b.err
             /\ calls' = IF b.called THEN [calls EXCEPT ![target] = @ + 1] ELSE calls
    /\ pc' = "respond"
    /\ UNCHANGED <<aux, config, request, target, format, rb, req,
                   decoderCalls, encoderCalls, streamReads, w>>

\* The status the handler resolves for an error.
ResolveStatus(e) == IF IsWithHTTPStatus(e) THEN e.status ELSE 500

\* Mutant: a structured error payload is always encoded as json.
MethodHandlerWrite_PayloadAsJson(w0, rs, e, fmt, partial) ==
    LET w1 == HeaderSet(w0, NoSniff)
    IN IF e # NoErr
       THEN LET st  == ResolveStatus(e)
                try == IsWithMessage(e) /\ e.message # "nil"
                enc == ProtoEncoder(w1, st, e.message, "json", partial)
            IN IF try /\ enc.err = ""
               THEN [w |-> enc.w, encoded |-> 1]
               ELSE [w |-> Write(IF try THEN enc.w ELSE w1,
                                 Chunk("text", ErrorString(e), "")),
                     encoded |-> IF try THEN 1 ELSE 0]
       ELSE LET enc == ProtoEncoder(w1, 200, rs, fmt, partial)
            IN IF enc.err # ""
               THEN [w |-> HttpError(enc.w, "Encode response failed, " \o enc.err, 500),
                     encoded |-> 1]
               ELSE [w |-> enc.w, encoded |-> 1]

\* Mutant: the nosniff header is set on the success path only.
MethodHandlerWrite_NoSniffOnSuccessOnly(w0, rs, e, fmt, partial) ==
    IF e # NoErr
    THEN LET st  == ResolveStatus(e)
             try == IsWithMessage(e) /\ e.message # "nil"
             enc == ProtoEncoder(w0, st, e.message, fmt, partial)
         IN IF try /\ enc.err = ""
            THEN [w |-> enc.w, encoded |-> 1]
            ELSE [w |-> Write(IF try THEN enc.w ELSE w0,
                              Chunk("text", ErrorString(e), "")),
                  encoded |-> IF try THEN 1 ELSE 0]
    ELSE LET enc == ProtoEncoder(HeaderSet(w0, NoSniff), 200, rs, fmt, partial)
         IN IF enc.err # ""
            THEN [w |-> HttpError(enc.w, "Encode response failed, " \o enc.err, 500),
                  encoded |-> 1]
            ELSE [w |-> enc.w, encoded |-> 1]

\* methodHandler.ServeHTTP from the nosniff header to the end: the writer
\* it leaves and the number of encoder calls it made.
MethodHandlerWrite(w0, rs, e, fmt, partial) ==
    LET w1 == HeaderSet(w0, NoSniff)
    IN IF e # NoErr
       THEN LET st  == ResolveStatus(e)
                try == IsWithMessage(e) /\ e.message # "nil"
                enc == ProtoEncoder(w1, st, e.message, fmt, partial)
            IN IF try /\ enc.err = ""
               THEN [w |-> enc.w, encoded |-> 1]
               ELSE [w |-> Write(IF try THEN enc.w ELSE w1,
                                 Chunk("text", ErrorString(e), "")),
                     encoded |-> IF try THEN 1 ELSE 0]
       ELSE LET enc == ProtoEncoder(w1, 200, rs, fmt, partial)
            IN IF enc.err # ""
               THEN [w |-> HttpError(enc.w, "Encode response failed, " \o enc.err, 500),
                     encoded |-> 1]
               ELSE [w |-> enc.w, encoded |-> 1]

MethodHandlerRespond ==
    /\ pc = "respond"
    /\ \E partial \in BOOLEAN :
          LET o == MethodHandlerWrite(w, res, err, format, partial)
          IN /\ w' = o.w
             /\ encoderCalls' = encoderCalls + o.encoded
    /\ pc' = "done"
    /\ UNCHANGED <<aux, config, request, target, format, rb, req, res, err, calls,
                   handlerCalls, decoderCalls, streamReads>>

----------------------------------------------------------------------------
(* aerpcproxy / rpcproxy: proxyHandler *)

\* proxyHandler.ServeHTTP, format and raw bytes.
ProxyHandlerFormat(fp) == IF Len(fp) > 0 THEN fp[1] ELSE "proto"

ProxyHandlerRead ==
    /\ pc = "proxyRead"
    /\ format' = ProxyHandlerFormat(r.format)
    /\ IF Len(r.inline) > 0
       THEN /\ rb' = r.inline[1]
            /\ pc' = "proxyDecode"
            /\ streamReads' = streamReads + ParseFormReads(r)
            /\ w' = w
       ELSE /\ streamReads' = streamReads + ParseFormReads(r) + 1
            /\ \E body \in BodyAfterParseForm(r) :
                  IF body = ReadError
                  THEN /\ w' = HttpError(w, "read request from HTTP body failed", 500)
                       /\ pc' = "done"
                       /\ rb' = ""
                  ELSE /\ rb' = body
                       /\ pc' = "proxyDecode"
                       /\ w' = w
    /\ UNCHANGED <<aux, config, request, target, req, res, err, calls,
                   handlerCalls, decoderCalls, encoderCalls>>

\* The status proxyHandler.ServeHTTP answers a request it cannot parse.
ProxyHandlerDecodeStatus == 500

\* proxyHandler.ServeHTTP, the inline decoding switch.
ProxyDecoder(src, fmt) ==
    IF fmt \in {"json", "proto", "text"} THEN Unmarshal(fmt, src)
    ELSE [err |-> "unknown format " \o fmt, dst |-> ZeroRequest]

ProxyHandlerDecode ==
    /\ pc = "proxyDecode"
    /\ IF Len(rb) > 0
       THEN /\ decoderCalls' = decoderCalls + 1
            /\ LET d == ProxyDecoder(rb, format)
               IN IF d.err # ""
                  THEN /\ w' = HttpError(w, "failed parsing request, " \o d.err,
                                         ProxyHandlerDecodeStatus)
                       /\ pc' = "done"
                       /\ req' = ZeroRequest
                  ELSE /\ req' = d.dst
                       /\ pc' = "proxyInvoke"
                       /\ w' = w
       ELSE /\ req' = ZeroRequest
            /\ pc' = "proxyInvoke"
            /\ UNCHANGED <<decoderCalls, w>>
    /\ UNCHANGED <<aux, config, request, target, format, rb, res, err, calls,
                   handlerCalls, encoderCalls, streamReads>>

\* proxyHandler.ServeHTTP, ret := h.backend.Call(ctx, req).
ProxyHandlerInvoke ==
    /\ pc = "proxyInvoke"
    /\ handlerCalls' = handlerCalls + 1
    /\ calls' = [calls EXCEPT ![target] = @ + 1]
    /\ \E out \in Outcomes(target, req) :
          /\ res' = out[1]
          /\ err' = out[2]
    /\ pc' = "proxyRespond"
    /\ UNCHANGED <<aux, config, request, target, format, rb, req,
                   decoderCalls, encoderCalls, streamReads, w>>

\* proxyHandler.ServeHTTP from the error test to the end.  The marshal
\* errors are dropped and an unknown format writes nothing.  In the proto
\* branch w.Write gets the bytes proto.Marshal returned with its error:
\* those it had produced when it failed (partial), or none.
ProxyHandlerWrite(w0, rs, e, fmt, partial) ==
    IF e # NoErr
    THEN [w |-> HttpError(w0, ErrorString(e), ResolveStatus(e)), encoded |-> 0]
    ELSE IF fmt \in {"json", "text"}
    THEN [w |-> Marshal(HeaderAdd(w0, <<"Content-Type", ContentType(fmt)>>),
                        rs, fmt, partial).w,
          encoded |-> 1]
    ELSE IF fmt = "proto"
    THEN LET w1 == HeaderAdd(w0, <<"Content-Type", ContentType(fmt)>>)
         IN [w |-> IF MarshalFails(rs, fmt)
                   THEN IF partial /\ rs # "nilptr"
                        THEN Write(w1, Chunk("partial", fmt, rs))
                        ELSE Write(w1, Chunk("encoded", fmt, ""))
                   ELSE Write(w1, Chunk("encoded", fmt, rs)),
             encoded |-> 1]
    ELSE [w |-> w0, encoded |-> 0]

ProxyHandlerRespond ==
    /\ pc = "proxyRespond"
    /\ \E partial \in BOOLEAN :
          LET o == ProxyHandlerWrite(w, res, err, format, partial)
          IN /\ w' = o.w
             /\ encoderCalls' = encoderCalls + o.encoded
    /\ pc' = "done"
    /\ UNCHANGED <<aux, config, request, target, format, rb, req, res, err, calls,
                   handlerCalls, decoderCalls, streamReads>>

----------------------------------------------------------------------------
Next ==
    \/ Arrive
    \/ Finish
    \/ ServiceHandlerServeHTTP
    \/ MethodHandlerRead
    \/ MethodHandlerDecode
    \/ MethodHandlerInvoke
    \/ MethodHandlerRespond
    \/ ProxyHandlerRead
    \/ ProxyHandlerDecode
    \/ ProxyHandlerInvoke
    \/ ProxyHandlerRespond

Spec == Init /\ [][Next]_vars

----------------------------------------------------------------------------
(* What the client receives *)

\* The status line of the response: net/http sends 200 when the handler
\* returns without having written a header.
ClientStatus == IF w.status = 0 THEN 200 ELSE w.status

Done == pc = "done"
Swiffy == handler = "swiffy"

TypeOK ==
    /\ pc \in {"idle", "route", "read", "decode", "invoke", "respond",
               "proxyRead", "proxyDecode", "proxyInvoke", "proxyRespond", "done"}
    /\ served \in 0..MaxServed
    /\ middleware \in Middlewares
    /\ w.status \in {0, 200, 400, 403, 404, 409, 500}

----------------------------------------------------------------------------
(* Properties *)

\* The request was handed to a method handler or to a proxy handler.
Handled == target # ""

\* The handler takes the raw bytes from the inline parameter: the swiffy
\* method handler when its value is not empty, the proxy handlers when it
\* is present.
InlineUsed == IF Swiffy THEN FormValue(r.inline) # "" ELSE Len(r.inline) > 0

\* ioutil.ReadAll failed and the handler answered with the read error: the
\* one way a handler ends without having called the decoder or the backend.
ReadAllFailed == Done /\ Handled /\ decoderCalls = 0 /\ handlerCalls = 0

\* The handler has its raw bytes: the inline parameter was used, or
\* ioutil.ReadAll read the body stream without error.
BodyRead == ~ReadAllFailed

\* What decoding the raw bytes gives in the handler that serves the request.
DecodeResult ==
    IF Swiffy THEN ProtoDecoder(ReqIsProto(target), rb, format)
    ELSE IF Len(rb) > 0 THEN ProxyDecoder(rb, format)
    ELSE [err |-> "", dst |-> ZeroRequest]

\* The backend returned an error to the handler.
BackendFailed == handlerCalls = 1 /\ err # NoErr

\* The configured Middleware calls the handler it wraps and returns its result.
PassThrough == middleware \in {"nil", "protoLogger"}

KnownFormat == format \in {"json", "proto", "text"}

\* C1: when the backend (or middleware) returns an error, the status of the
\* response is the error's HTTPStatus() if it carries one, else 500.
C1_ErrorStatusResolved ==
    (Done /\ BackendFailed) => ClientStatus = ResolveStatus(err)

\* C2: a call of the method handler writes exactly one response: the status
\* line is set exactly once, and the body is the encoded success body with
\* status 200 or a single error body with a non-200 resolved status.
C2_ExactlyOneResponse ==
    (Done /\ Swiffy /\ Handled) =>
        /\ w.headerCalls = 1
        /\ Len(w.body) = 1
        /\ \/ /\ err = NoErr /\ handlerCalls = 1
              /\ w.status = 200
              /\ w.body[1] = Chunk("encoded", format, res)
           \/ /\ handlerCalls = 0
              /\ w.status = 400
              /\ w.body[1].kind = "text"
           \/ /\ err = NoErr /\ handlerCalls = 1
              /\ w.status = 500
              /\ w.body[1].kind = "text"
           \/ /\ BackendFailed
              /\ w.status = ResolveStatus(err)
              /\ w.body[1] \in {Chunk("text", ErrorString(err), ""),
                                Chunk("encoded", format, err.message)}

\* C3 as stated: a request with an unsupported format token yields 400 for
\* every request body, the empty body included (here for the requests whose
\* backend call, if any, returned no error).
C3_UnsupportedFormatAlways400 ==
    (Done /\ Swiffy /\ Handled /\ BodyRead /\ ~KnownFormat /\ err = NoErr) =>
        ClientStatus = 400

\* C3 amended: with a non-empty request body an unsupported format token
\* yields 400 and the backend is not invoked; with an empty body the decoder
\* accepts the token and the backend handler is invoked.
C3_UnsupportedFormatNonEmptyBody400 ==
    (Done /\ Swiffy /\ Handled /\ BodyRead /\ ~KnownFormat) =>
        /\ rb # "" => (ClientStatus = 400 /\ handlerCalls = 0 /\ calls = NoCalls)
        /\ rb = "" => handlerCalls = 1

C3_Witness ==
    /\ Done /\ Swiffy /\ Handled
    /\ format = "xml" /\ rb = JsonWorld
    /\ w.status = 400 /\ decoderCalls = 1

\* C4: an error with a non-nil structured payload is answered with the
\* error's status and the encoded payload alone; when encoding the payload
\* fails, with the error's plain text and the same resolved status.
C4_ErrorPayload ==
    (Done /\ Swiffy /\ BackendFailed /\ IsWithMessage(err) /\ err.message # "nil") =>
        /\ w.status = ResolveStatus(err)
        /\ w.body \in {<<Chunk("encoded", format, err.message)>>,
                       <<Chunk("text", ErrorString(err), "")>>}

\* C5: a missing or empty method parameter yields 400 and reaches neither
\* the decoder, the encoder, the middleware nor a backend operation.
C5_NoMethod400 ==
    (Swiffy /\ pc # "idle" /\ FormValue(r.method) = "") =>
        /\ pc \in {"route", "done"}
        /\ ~Handled
        /\ decoderCalls = 0 /\ encoderCalls = 0 /\ handlerCalls = 0
        /\ calls = NoCalls
        /\ Done => (ClientStatus = 400 /\ w.headerCalls = 1)

C5_Witness ==
    /\ Done /\ Swiffy /\ r.method \in {<<>>, <<"">>}
    /\ w.status = 400
    /\ w.body = <<Chunk("text", "No method parameter", "")>>

\* C6: a non-empty method value that is not a key of the method table
\* yields 404 and invokes no backend operation.
C6_UnknownMethod404 ==
    (Swiffy /\ pc # "idle" /\ FormValue(r.method) # "" /\ FormValue(r.method) \notin methods) =>
        /\ pc \in {"route", "done"}
        /\ handlerCalls = 0
        /\ calls = NoCalls
        /\ Done => (ClientStatus = 404 /\ w.headerCalls = 1)

C6_Witness ==
    /\ Done /\ Swiffy /\ r.method = <<"Nope">>
    /\ w.status = 404
    /\ w.body = <<Chunk("text", "Method not found", "")>>

\* C7: a request with method=m, m registered, and a decodable body invokes
\* the handler of m once: the operation registered as m is invoked exactly
\* once (when the configured Middleware passes the call on), no other
\* operation is invoked, and no step runs twice.
C7_ExactlyTheRegisteredOperation ==
    (Swiffy /\ pc # "idle" /\ FormValue(r.method) \in methods) =>
        /\ \A m \in ServiceMethods \ {FormValue(r.method)} : calls[m] = 0
        /\ calls[FormValue(r.method)] <= 1
        /\ handlerCalls <= 1 /\ decoderCalls <= 1 /\ encoderCalls <= 1
        /\ streamReads <= 1 + ParseFormReads(r)
        /\ (Done /\ BodyRead /\ DecodeResult.err = "") =>
              /\ handlerCalls = 1
              /\ PassThrough => calls[FormValue(r.method)] = 1

C7_Witness ==
    /\ Done /\ Swiffy /\ r.method = <<"Op">> /\ rb = JsonWorld /\ format = "json"
    /\ PassThrough
    /\ calls = [m \in ServiceMethods |-> IF m = "Op" THEN 1 ELSE 0]

\* C8: when decoding a non-empty request body fails the status is 400, the
\* body wraps the codec's error message and the backend is not invoked.
C8_DecodeFailure400 ==
    (Done /\ Handled /\ BodyRead /\ rb # "" /\ DecodeResult.err # "") =>
        /\ ClientStatus = 400
        /\ Len(w.body) = 1 /\ w.body[1].kind = "text"
        /\ handlerCalls = 0 /\ calls = NoCalls

\* What encoding v in the format of the request gives an error for.
EncodeFails(v) == ~KnownFormat \/ ~IsProto(v) \/ MarshalFails(v, format)

\* C9: when the backend succeeds and encoding its response fails, the
\* client receives status 500.
C9_EncodeFailure500 ==
    (Done /\ handlerCalls = 1 /\ err = NoErr /\ EncodeFails(res)) => ClientStatus = 500

\* The request has no inline request parameter and an empty byte stream.
EmptyBody == r.inline = <<>> /\ r.stream = ""

\* C10: with an empty body decoding does not fail whatever the format, and
\* the backend is invoked with the zero-valued request.
C10_EmptyBodyZeroRequest ==
    (Handled /\ EmptyBody) =>
        /\ DecodeResult.err = ""
        /\ pc \in {"invoke", "proxyInvoke"} => req = ZeroRequest
        /\ Done =>
              /\ decoderCalls = IF Swiffy THEN 1 ELSE 0
              /\ handlerCalls = 1
              /\ req = ZeroRequest
              /\ (PassThrough \/ ~Swiffy) => calls[target] = 1

C10_Witness ==
    /\ Done /\ Handled /\ EmptyBody
    /\ format = "xml"
    /\ handlerCalls = 1 /\ calls[target] = 1 /\ req = ZeroRequest

----------------------------------------------------------------------------
(* Properties of the response, the interceptors, the format and the body *)

\* C11: every request ends with a response written by the handler, a status
\* and a body, whichever step failed.
C11_ResponseWritten ==
    Done => (w.status # 0 /\ Len(w.body) >= 1)

\* The configured Middleware answers without calling the handler it wraps.
ShortCircuits == middleware \in {"canned", "deny"}

\* C12: when the Middleware answers before calling the downstream handler,
\* the backend operation is not invoked and its response (status 200) or its
\* error (the error's status and text) is what is sent; when it does not,
\* the backend operation is invoked.
C12_PreStageShortCircuit ==
    (Done /\ Swiffy /\ handlerCalls = 1) =>
        /\ ShortCircuits => calls = NoCalls
        /\ ~ShortCircuits => calls[target] = 1
        /\ (middleware = "canned" /\ KnownFormat) =>
              (w.status = 200 /\ w.body = <<Chunk("encoded", format, "canned")>>)
        /\ middleware = "deny" =>
              (w.status = 403 /\ w.body = <<Chunk("text", "Forbidden", "")>>)

\* C13: when the Middleware returns an error after the downstream handler
\* returned, the backend's response is not encoded and the status of the
\* response is the status the error carries.
C13_PostStageError ==
    (Done /\ Swiffy /\ handlerCalls = 1 /\ middleware = "postError") =>
        /\ calls[target] = 1
        /\ encoderCalls = 0
        /\ \A i \in 1..Len(w.body) : w.body[i].kind = "text"
        /\ ClientStatus = err.status

\* The format the handler resolves from the request's form.
ResolvedFormat ==
    IF Swiffy THEN MethodHandlerFormat(r.format) ELSE ProxyHandlerFormat(r.format)

\* The handler has resolved the format and obtained the raw bytes.
AfterRead == Handled /\ pc \notin {"idle", "route", "read", "proxyRead"}

\* The headers the client receives.
SentHeaders == IF w.status = 0 THEN w.header ELSE w.sent

\* C14: the format is resolved once, before decoding; decoding, encoding the
\* response and encoding an error payload all use that value, and the
\* Content-Type of an encoded response is the one of that format.
C14_OneFormatPerRequest ==
    AfterRead =>
        /\ format = ResolvedFormat
        /\ (pc \notin {"decode", "proxyDecode"} /\ BodyRead /\ handlerCalls = 1) =>
              req = (IF Len(rb) > 0 THEN Unmarshal(ResolvedFormat, rb).dst ELSE ZeroRequest)
        /\ \A i \in 1..Len(w.body) :
              w.body[i].kind \in {"encoded", "partial"} =>
                 /\ w.body[i].a = ResolvedFormat
                 /\ {h \in SentHeaders : h[1] = "Content-Type"}
                       = {<<"Content-Type", ContentType(ResolvedFormat)>>}

C14_Witness ==
    /\ Done /\ Swiffy /\ r.format = <<"text">> /\ BackendFailed
    /\ w.body = <<Chunk("encoded", "text", "detail")>>
    /\ <<"Content-Type", "text/plain; charset=utf-8">> \in w.sent

\* C15 as stated: with no format parameter the resolved format is json in
\* every dispatcher variant.
C15_DefaultFormatJsonEverywhere ==
    (AfterRead /\ r.format = <<>>) => format = "json"

\* C15 amended: with no format parameter the swiffy method handler resolves
\* json and the proxy handlers resolve proto, for decoding and for encoding.
C15_DefaultFormatPerVariant ==
    (AfterRead /\ r.format = <<>>) =>
        /\ format = (IF Swiffy THEN "json" ELSE "proto")
        /\ \A i \in 1..Len(w.body) :
              w.body[i].kind \in {"encoded", "partial"} =>
                 w.body[i].a = (IF Swiffy THEN "json" ELSE "proto")
        /\ (Done /\ Len(rb) > 0 /\ handlerCalls = 1) =>
              Unmarshal(IF Swiffy THEN "json" ELSE "proto", rb).err = ""

\* A proxy handler decoded and answered in proto a request without format.
C15_Witness ==
    /\ Done /\ ~Swiffy /\ r.format = <<>> /\ rb = ProtoWorld
    /\ format = "proto" /\ req = [name |-> "World"]
    /\ w.body = <<Chunk("encoded", "proto", "Hello World")>>
    /\ <<"Content-Type", "application/x-protobuf">> \in SentHeaders

\* C17: a request without the inline request parameter has its body
\* stream read exactly once, and the bytes read are the request body the
\* handler decodes.
C17_StreamReadOnceAsBody ==
    /\ r.inline = <<>> => streamReads <= 1
    /\ (AfterRead /\ r.inline = <<>>) =>
          streamReads = 1 /\ (BodyRead => rb = r.stream)

\* C19 as stated: every response, on success and on every error path,
\* carries X-Content-Type-Options: nosniff.
C19_NoSniffOnEveryResponse ==
    Done => NoSniff \in SentHeaders

\* C19 amended: every response of the swiffy service handler carries the
\* header; of the proxy handlers' responses exactly the error responses do.
C19_NoSniffPerVariant ==
    Done =>
        IF Swiffy THEN NoSniff \in SentHeaders
        ELSE (NoSniff \in SentHeaders) <=> (handlerCalls = 0 \/ err # NoErr)

\* A proxy handler answered a successful call without the header.
C19_Witness ==
    /\ Done /\ ~Swiffy /\ handlerCalls = 1 /\ err = NoErr
    /\ w.body = <<Chunk("encoded", format, res)>>
    /\ NoSniff \notin SentHeaders

----------------------------------------------------------------------------
(* Registration paths: camelCaseToUnderscore *)

\* The main handlers at rest, for the specifications that study something else.
MainIdle == MainInit /\ middleware = "nil"

\* Longest method name tried.
MaxNameLen == 6

\* Characters of method names, with unicode.IsUpper and unicode.ToLower.
\* U+03D2 is an uppercase letter (category Lu) that has no lower-case form:
\* unicode.IsUpper holds of it and unicode.ToLower returns it unchanged.
\* U+01C5 is a titlecase letter (category Lt): unicode.IsUpper does not
\* hold of it and unicode.ToLower maps it to U+01C6.
Alphabet == {"F", "B", "o", "a", "r", "ϒ", "ǅ"}
IsUpper(c) == c \in {"F", "B", "ϒ"}
ToLower(c) ==
    CASE c = "F" -> "f"
      [] c = "B" -> "b"
      [] c = "ǅ" -> "ǆ"
      [] OTHER   -> c

Names == UNION {[1..n -> Alphabet] : n \in 0..MaxNameLen}

\* The loop of camelCaseToUnderscore from position i, out being the builder.
RECURSIVE camelCaseLoop(_, _, _)
camelCaseLoop(s, i, out) ==
    IF i > Len(s) THEN out
    ELSE IF IsUpper(s[i])
         THEN camelCaseLoop(s, i + 1,
                 Append(IF i > 1 THEN Append(out, "_") ELSE out, ToLower(s[i])))
         ELSE camelCaseLoop(s, i + 1, Append(out, s[i]))

\* Mutant: the underscore is written before every uppercase letter, the
\* first one included.
RECURSIVE camelCaseLoop_NoIndexTest(_, _, _)
camelCaseLoop_NoIndexTest(s, i, out) ==
    IF i > Len(s) THEN out
    ELSE IF IsUpper(s[i])
         THEN camelCaseLoop_NoIndexTest(s, i + 1, Append(Append(out, "_"), ToLower(s[i])))
         ELSE camelCaseLoop_NoIndexTest(s, i + 1, Append(out, s[i]))

camelCaseToUnderscore_LeadingUnderscore(s) == camelCaseLoop_NoIndexTest(s, 1, <<>>)

camelCaseToUnderscore(s) == camelCaseLoop(s, 1, <<>>)

RegistrationInit ==
    /\ MainIdle /\ SetupIdle /\ ClientsIdle
    /\ name \in Names
    /\ path = <<>>

\* RegisterService derives the path of a method: "/" followed by the
\* converted name.
RegisterService ==
    /\ path = <<>>
    /\ path' = <<"/">> \o camelCaseToUnderscore(name)
    /\ UNCHANGED <<config, request, pc, target, format, rb, req, res, err, calls,
                   handlerCalls, decoderCalls, encoderCalls, streamReads, w,
                   setup, name, clients>>

SpecRegistration == RegistrationInit /\ [][RegisterService]_vars

\* The positions of the uppercase letters of the name after the first.
InnerUppers(s) == {i \in 2..Len(s) : IsUpper(s[i])}

\* Where the character at position i of the name lands in the output.
OutPos(s, i) == i + Cardinality({j \in InnerUppers(s) : j <= i})

\* The output is the name with the character at each position i replaced
\* by low[i] and one underscore inserted before each uppercase letter after
\* the first.
Underscored(s, out, low) ==
    /\ Len(out) = Len(s) + Cardinality(InnerUppers(s))
    /\ s # <<>> => out[1] = low[1]
    /\ \A i \in 1..Len(s) :
          /\ out[OutPos(s, i)] = low[i]
          /\ i \in InnerUppers(s) => out[OutPos(s, i) - 1] = "_"

\* The lower-case form of a name: unicode.ToLower of every character.
LowerCase(s) == [i \in 1..Len(s) |-> ToLower(s[i])]

\* What the loop writes for a character: ToLower of it when IsUpper holds,
\* the character itself otherwise.
LowerIfUpper(c) == IF IsUpper(c) THEN ToLower(c) ELSE c
UppersLowered(s) == [i \in 1..Len(s) |-> LowerIfUpper(s[i])]

\* C20 (as claimed): the path of every name is its lower-case form with one
\* underscore inserted before each uppercase letter except one at position
\* 0, and the result contains no uppercase letter.
C20_NoUppercaseLeft ==
    path # <<>> =>
        /\ path[1] = "/"
        /\ Underscored(name, Tail(path), LowerCase(name))
        /\ \A k \in 1..Len(path) : ~IsUpper(path[k])

\* C20 (amended): the path of every name is the name with each uppercase
\* letter (unicode.IsUpper) replaced by unicode.ToLower of it, every other
\* character kept as it is, and one underscore inserted before each
\* uppercase letter except one at position 0; the only uppercase letters
\* left in the result are those that ToLower does not change.
C20_CamelCaseToUnderscore ==
    path # <<>> =>
        /\ path[1] = "/"
        /\ Underscored(name, Tail(path), UppersLowered(name))
        /\ \A k \in 1..Len(path) : IsUpper(path[k]) => ToLower(path[k]) = path[k]

C20_Witness ==
    /\ name = <<"F", "o", "o", "B", "a", "r">>
    /\ path = <<"/", "f", "o", "o", "_", "b", "a", "r">>

----------------------------------------------------------------------------
(* Setup: NewServiceHandler (swiffy) and RegisterService / Proxy (proxies) *)

\* What reflection tells about a method of the service value:
\*   numIn, numOut  fnt.NumIn(), fnt.NumOut() (the receiver is bound)
\*   in0ctx         fnt.In(0).Implements(ctxType)
\*   in1ptr         fnt.In(1).Kind() == reflect.Ptr
\*   in1proto       fnt.In(1).Implements(protoType)
\*   out0proto      fnt.Out(0).Implements(protoType)
\*   out1err        fnt.Out(1) == errType
Signatures ==
    [numIn : {1, 2}, numOut : {1, 2}, in0ctx : BOOLEAN, in1ptr : BOOLEAN,
     in1proto : BOOLEAN, out0proto : BOOLEAN, out1err : BOOLEAN]

\* The public method names of the service values, in the order in which
\* servType.Method(i) gives them (sorted by name): FB, F_b, Foo.  FB and
\* F_b convert to the same path.
MethodOrder == << <<"F", "B">>, <<"F", "_", "b">>, <<"F", "o", "o">> >>

\* The service values: one or two public methods.
Services ==
    UNION {[ms -> Signatures] :
              ms \in {{MethodOrder[3]}, {MethodOrder[1], MethodOrder[3]},
                      {MethodOrder[1], MethodOrder[2]}}}

\* newMethodHandler returns (TRUE) or panics (FALSE) on a method of this
\* signature.  The cases of the switch are evaluated in order.
newMethodHandler(sig) ==
    ~ \/ sig.numIn # 2
      \/ sig.numOut # 2
      \/ ~sig.in0ctx
      \/ ~sig.in1ptr
      \/ ~sig.out1err

\* Proxy returns (TRUE) or panics (FALSE) on a function of this signature.
Proxy(sig) ==
    ~ \/ sig.numIn # 2
      \/ sig.numOut # 2
      \/ ~sig.in0ctx
      \/ ~sig.in1ptr
      \/ ~sig.in1proto
      \/ ~sig.out0proto
      \/ ~sig.out1err

\* A setup: where it is or how it ended, the methods that got a handler,
\* the entries of the mux (those with method <<>> were there before), and
\* for RegisterService the loop variable i and the Middleware it was given.
NotBuilt == [state |-> "none", table |-> {}, mux |-> {}, i |-> 0, mw |-> "nil"]

\* Mutant: a method the handler constructor rejects is left out of the table.
BuildTable_SkipInvalid(sv) ==
    [NotBuilt EXCEPT !.state = "ok", !.table = {m \in DOMAIN sv : newMethodHandler(sv[m])}]

\* The loop of NewServiceHandler over the methods of the service value: a
\* panic of newMethodHandler aborts the setup, and the map the loop was
\* filling is lost with it.
BuildTable(sv) ==
    IF \E m \in DOMAIN sv : ~newMethodHandler(sv[m])
    THEN [NotBuilt EXCEPT !.state = "panic"]
    ELSE [NotBuilt EXCEPT !.state = "ok", !.table = DOMAIN sv]

\* The Middleware handed to RegisterService: none, one that wraps the
\* handler, one that returns a nil handler.
HttpMiddlewares == {"nil", "wrap", "returnsNil"}

\* The patterns the mux holds before RegisterService is called.
Muxes == {{}, {[pattern |-> <<"/", "f", "o", "o">>, method |-> <<>>, wrapped |-> FALSE]}}

\* mux.Handle panics on a nil handler and on a pattern that is registered.
MuxHandleOk(mux, pattern, mw) ==
    mw # "returnsNil" /\ pattern \notin {e.pattern : e \in mux}

\* servType.Method(i) for i = 0 .. NumMethod()-1: the methods of the service
\* value in name order.
Methods(sv) == SelectSeq(MethodOrder, LAMBDA m : m \in DOMAIN sv)

\* One iteration of the loop of RegisterService: Proxy builds the handler
\* of the i-th method, the Middleware wraps it and mux.Handle registers it
\* under the path of the name.  A panic of Proxy or of mux.Handle ends the
\* setup and leaves in the mux what was registered before; the iteration
\* of the last method returns.
RegisterIteration(sv, b) ==
    LET m       == Methods(sv)[b.i]
        pattern == <<"/">> \o camelCaseToUnderscore(m)
    IN IF ~Proxy(sv[m]) \/ ~MuxHandleOk(b.mux, pattern, b.mw)
       THEN [b EXCEPT !.state = "panic:proxy"]
       ELSE [b EXCEPT !.table = @ \cup {m},
                      !.mux = @ \cup {[pattern |-> pattern, method |-> m,
                                       wrapped |-> b.mw # "nil"]},
                      !.i = @ + 1,
                      !.state = IF b.i = Len(Methods(sv)) THEN "ok:proxy" ELSE @]

SetupInit ==
    /\ MainIdle /\ RegistrationIdle /\ ClientsIdle
    /\ serv \in Services
    /\ built = NotBuilt

SetupNewServiceHandler ==
    /\ built.state = "none" /\ serv # <<>>
    /\ built' = [BuildTable(serv) EXCEPT !.state = @ \o ":swiffy"]
    /\ UNCHANGED <<config, request, pc, target, format, rb, req, res, err, calls,
                   handlerCalls, decoderCalls, encoderCalls, streamReads, w,
                   serv, registration, clients>>

\* RegisterService is called with a mux and a Middleware.
SetupRegisterService ==
    /\ built.state = "none" /\ serv # <<>>
    /\ \E mux \in Muxes, mw \in HttpMiddlewares :
          built' = [NotBuilt EXCEPT !.state = "running:proxy", !.mux = mux,
                                    !.i = 1, !.mw = mw]
    /\ UNCHANGED <<config, request, pc, target, format, rb, req, res, err, calls,
                   handlerCalls, decoderCalls, encoderCalls, streamReads, w,
                   serv, registration, clients>>

\* RegisterService runs one iteration of its loop: between two iterations
\* the mux holds the paths of the methods registered so far.
SetupRegisterServiceLoop ==
    /\ built.state = "running:proxy"
    /\ built' = RegisterIteration(serv, built)
    /\ UNCHANGED <<config, request, pc, target, format, rb, req, res, err, calls,
                   handlerCalls, decoderCalls, encoderCalls, streamReads, w,
                   serv, registration, clients>>

SetupNext == SetupNewServiceHandler \/ SetupRegisterService \/ SetupRegisterServiceLoop

SpecSetup == SetupInit /\ [][SetupNext]_vars

\* The method has the shape (context, pointer) -> (value, error).
HasShape(sig) ==
    sig.numIn = 2 /\ sig.numOut = 2 /\ sig.in0ctx /\ sig.in1ptr /\ sig.out1err

\* The shape, with request and response types the protobuf codec handles.
Conforms(sig) == HasShape(sig) /\ sig.in1proto /\ sig.out0proto

SetupDone == built.state \in {"ok:swiffy", "panic:swiffy", "ok:proxy", "panic:proxy"}
SetupOk == built.state \in {"ok:swiffy", "ok:proxy"}
ByProxy == built.state \in {"running:proxy", "ok:proxy", "panic:proxy"}

\* C16 as stated: setup aborts or gives a table with every exposed method,
\* each of the shape (context, *Request) -> (*Response, error) with request
\* and response types the codec supports; no method is skipped, none that
\* does not conform is accepted.
C16_SetupAcceptsOnlyConforming ==
    SetupDone =>
        /\ SetupOk => built.table = DOMAIN serv
        /\ \A m \in built.table : Conforms(serv[m])

\* The entries the mux held before the setup, and the paths of methods.
MuxBefore == {e \in built.mux : e.method = <<>>}
PathOf(m) == <<"/">> \o camelCaseToUnderscore(m)

\* C16 amended: setup aborts or gives a table with every exposed method and
\* skips none.  NewServiceHandler aborts exactly when a method has not the
\* shape (context, pointer) -> (value, error), whatever its types are to the
\* codec, and then gives no table.  RegisterService accepts only methods
\* whose request and response are proto.Message, aborts at the first method
\* (in name order) that Proxy or mux.Handle rejects, and leaves the methods
\* before it registered in the mux; while it runs the mux holds the paths
\* of the methods before the one at hand.
C16_SetupAcceptsShape ==
    /\ ByProxy =>
          /\ \A e \in built.mux \ MuxBefore : e.pattern = PathOf(e.method)
          /\ {e.method : e \in built.mux \ MuxBefore} = built.table
          /\ \A e, g \in built.mux : e.pattern = g.pattern => e = g
          /\ \A m \in built.table : Conforms(serv[m])
          /\ built.table = {Methods(serv)[k] : k \in 1..(built.i - 1)}
    /\ SetupDone =>
          IF ByProxy
          THEN /\ SetupOk => built.table = DOMAIN serv
               /\ (\E m \in DOMAIN serv : ~Conforms(serv[m])) => ~SetupOk
               /\ ~SetupOk => built.table # DOMAIN serv
          ELSE IF \A m \in DOMAIN serv : HasShape(serv[m])
               THEN SetupOk /\ built.table = DOMAIN serv
               ELSE ~SetupOk /\ built.table = {}

C16_Witness ==
    /\ built.state = "ok:swiffy"
    /\ built.table = {MethodOrder[1], MethodOrder[3]}
    /\ Conforms(serv[MethodOrder[3]])
    /\ HasShape(serv[MethodOrder[1]]) /\ ~serv[MethodOrder[1]].in1proto

----------------------------------------------------------------------------
(* Concurrent requests on one service handler *)

\* Number of requests net/http runs at the same time, each on its goroutine.
NumClients == 2
Clients == 1..NumClients

\* The requests the concurrent clients send.
ConcurrentRequests ==
    { Request(<<"Hello">>, <<>>,        <<JsonWorld>>, "",         TRUE),
      Request(<<"Hello">>, <<"proto">>, <<>>,          ProtoWorld, FALSE),
      Request(<<"Hello">>, <<"json">>,  <<>>,          ReadError,  TRUE),
      Request(<<"Op">>,    <<"text">>,  <<>>,          JsonWorld,  TRUE),
      Request(<<>>,        <<>>,        <<>>,          JsonWorld,  FALSE),
      Request(<<"Nope">>,  <<"json">>,  <<>>,          ReadError,  FALSE) }

\* The values of one call of ServeHTTP: its parameters r and w, its locals,
\* the backend invocation it made (<<method, request>>, or <<>> for none),
\* and whether it ran a step while another call was in progress.
NewCall ==
    [pc |-> "idle", r |-> NoRequest, target |-> "", format |-> "", rb |-> "",
     req |-> ZeroRequest, res |-> "nil", err |-> NoErr, invoked |-> <<>>,
     w |-> NewWriter, overlapped |-> FALSE]

InFlight(call) == call.pc \notin {"idle", "done"}

\* Mutant: format is a field of the method handler, so that assigning it
\* in one call changes it in every call in progress on the same method.
Locals_FormatInHandler(cs, c, new) ==
    [d \in DOMAIN cs |->
        IF d = c THEN new
        ELSE IF InFlight(cs[d]) /\ cs[d].target = new.target /\ new.format # ""
             THEN [cs[d] EXCEPT !.format = new.format]
             ELSE cs[d]]

\* The parameters and locals of ServeHTTP belong to the call: a step of
\* call c assigns the values of c and of no other call.
Locals(cs, c, new) == [cs EXCEPT ![c] = new]

\* A step of call c that leaves it with the values new.
Step(c, new) ==
    clients' = Locals(clients, c,
                  [new EXCEPT !.overlapped =
                      @ \/ \E d \in Clients \ {c} : InFlight(clients[d])])

\* methodHandler.ServeHTTP, the raw bytes of the request.
MethodHandlerRawBytes(rq) ==
    IF FormValue(rq.inline) # "" THEN {[err |-> FALSE, rb |-> FormValue(rq.inline)]}
    ELSE {IF body = ReadError THEN [err |-> TRUE, rb |-> ""]
                              ELSE [err |-> FALSE, rb |-> body] :
             body \in BodyAfterParseForm(rq)}

\* The Options of the handler under concurrent load: no Middleware, or one
\* that answers without calling the backend.
ConcurrentMiddlewares == {"nil", "canned"}

ConcurrentInit ==
    /\ MainInit /\ SetupIdle /\ RegistrationIdle
    /\ middleware \in ConcurrentMiddlewares
    /\ clients = [c \in Clients |-> NewCall]

ConcurrentArrive(c) ==
    /\ clients[c].pc = "idle"
    /\ \E rq \in ConcurrentRequests :
          Step(c, [clients[c] EXCEPT !.r = rq, !.pc = "route"])

ConcurrentRoute(c) ==
    /\ clients[c].pc = "route"
    /\ LET d == ServiceHandlerRoute(FormValue(clients[c].r.method), methods)
       IN Step(c, [clients[c] EXCEPT !.w = d.w, !.target = d.mh,
                                     !.pc = IF d.mh = "" THEN "done" ELSE "read"])

ConcurrentRead(c) ==
    /\ clients[c].pc = "read"
    /\ LET me == clients[c]
           f  == MethodHandlerFormat(me.r.format)
       IN \E b \in MethodHandlerRawBytes(me.r) :
             IF b.err
             THEN Step(c, [me EXCEPT !.format = f, !.pc = "done",
                              !.w = HttpError(me.w, "Read request from HTTP body failed", 400)])
             ELSE Step(c, [me EXCEPT !.format = f, !.rb = b.rb, !.pc = "decode"])

ConcurrentDecode(c) ==
    /\ clients[c].pc = "decode"
    /\ LET me == clients[c]
           d  == ProtoDecoder(ReqIsProto(me.target), me.rb, me.format)
       IN IF d.err # ""
          THEN Step(c, [me EXCEPT !.pc = "done",
                           !.w = HttpError(me.w, "Decode request failed, " \o d.err,
                                           MethodHandlerDecodeStatus)])
          ELSE Step(c, [me EXCEPT !.req = d.dst, !.pc = "invoke"])

ConcurrentInvoke(c) ==
    /\ clients[c].pc = "invoke"
    /\ LET me == clients[c]
       IN \E out \in Outcomes(me.target, me.req) :
             LET b == Backend(middleware, out)
             IN Step(c, [me EXCEPT !.res = b.res, !.err = b.err, !.pc = "respond",
                            !.invoked = IF b.called THEN <<me.target, me.req>> ELSE <<>>])

ConcurrentRespond(c) ==
    /\ clients[c].pc = "respond"
    /\ LET me == clients[c]
       IN \E partial \in BOOLEAN :
             Step(c, [me EXCEPT !.pc = "done",
                         !.w = MethodHandlerWrite(me.w, me.res, me.err, me.format, partial).w])

\* One goroutine runs one step of its call; no step assigns the method
\* table, the Options or anything of the single-request model.
ConcurrentNext ==
    /\ \E c \in Clients :
          \/ ConcurrentArrive(c)
          \/ ConcurrentRoute(c)
          \/ ConcurrentRead(c)
          \/ ConcurrentDecode(c)
          \/ ConcurrentInvoke(c)
          \/ ConcurrentRespond(c)
    /\ UNCHANGED <<config, request, pc, target, format, rb, req, res, err, calls,
                   handlerCalls, decoderCalls, encoderCalls, streamReads, w,
                   setup, registration>>

SpecConcurrent == ConcurrentInit /\ [][ConcurrentNext]_vars

\* What serving the request rq alone can end with: the response written
\* and the backend invocation made.
AloneWith(rq, b) ==
    LET d == ServiceHandlerRoute(FormValue(rq.method), methods)
        f == MethodHandlerFormat(rq.format)
        q == ProtoDecoder(ReqIsProto(d.mh), b.rb, f)
    IN IF d.mh = "" THEN {[w |-> d.w, invoked |-> <<>>]}
       ELSE IF b.err
       THEN {[w |-> HttpError(d.w, "Read request from HTTP body failed", 400),
              invoked |-> <<>>]}
       ELSE IF q.err # ""
       THEN {[w |-> HttpError(d.w, "Decode request failed, " \o q.err,
                              MethodHandlerDecodeStatus),
              invoked |-> <<>>]}
       ELSE {[w |-> MethodHandlerWrite(d.w, Backend(middleware, out).res,
                                       Backend(middleware, out).err, f, partial).w,
              invoked |-> IF Backend(middleware, out).called
                          THEN <<d.mh, q.dst>> ELSE <<>>] :
                out \in Outcomes(d.mh, q.dst), partial \in BOOLEAN}

Alone(rq) == UNION {AloneWith(rq, b) : b \in MethodHandlerRawBytes(rq)}

\* Every finished call ended as its request ends when served alone.
Independent ==
    \A c \in Clients :
        clients[c].pc = "done" =>
            [w |-> clients[c].w, invoked |-> clients[c].invoked] \in Alone(clients[c].r)

\* C18: in every interleaving of the concurrent calls no step writes the
\* state the calls share (the method table, the Options), and every call
\* ends with the response and the backend invocation its request has when
\* it is served alone.
C18_ConcurrentRequestsIndependent ==
    []Independent /\ [][config' = config]_vars

\* Two calls on the same method, with different formats, overlapped and
\* both answered 200, each in its own format.
C18_Witness ==
    /\ \A c \in {1, 2} : clients[c].pc = "done" /\ clients[c].overlapped
                         /\ clients[c].target = "Hello" /\ clients[c].w.status = 200
    /\ clients[1].format = "json"
    /\ clients[2].format = "proto"

====
